---- MODULE Spec2Model ----
(***************************************************************************)
(* Model of the pi-glm-image-summary extension (src/src/index.ts): the     *)
(* overridden read tool's execute (model test, image classification,       *)
(* delegation to a `pi` child process, cancellation, response              *)
(* normalisation, result or tool error).                                   *)
(*                                                                         *)
(* Strings are sequences of tokens.  A path is a sequence of characters;   *)
(* a process output, an error message or a summary is a sequence of        *)
(* non-empty lexemes, so a string is empty exactly when its sequence is.   *)
(***************************************************************************)
EXTENDS Integers, Sequences, FiniteSets, TLC

(***************************************************************************)
(* Bounds of the model.                                                    *)
(***************************************************************************)
MaxStderrChunks == 1
MaxMessages == 2
MaxPieces == 3

(***************************************************************************)
(* Generic string helpers.                                                 *)
(***************************************************************************)
Last(s) == s[Len(s)]

\* Array.prototype.join over strings: the parts with sep between them.
RECURSIVE JoinWith(_, _)
JoinWith(parts, sep) ==
    IF parts = <<>> THEN <<>>
    ELSE IF Len(parts) = 1 THEN parts[1]
    ELSE parts[1] \o sep \o JoinWith(Tail(parts), sep)

\* String.prototype.split(sep) for a one-character separator: the pieces
\* between the separators, empty pieces included.
RECURSIVE SplitOn(_, _)
SplitOn(s, sep) ==
    IF \A i \in 1..Len(s) : s[i] # sep THEN <<s>>
    ELSE LET k == CHOOSE i \in 1..Len(s) :
                      s[i] = sep /\ \A j \in 1..(i - 1) : s[j] # sep
         IN  <<SubSeq(s, 1, k - 1)>> \o SplitOn(SubSeq(s, k + 1, Len(s)), sep)

\* t occurs in s as a contiguous run (String.prototype.includes).
Contains(s, t) ==
    \E i \in 0..(Len(s) - Len(t)) : SubSeq(s, i + 1, i + Len(t)) = t

UpperCase == <<"A","B","C","D","E","F","G","H","I","J","K","L","M",
               "N","O","P","Q","R","S","T","U","V","W","X","Y","Z">>
LowerCase == <<"a","b","c","d","e","f","g","h","i","j","k","l","m",
               "n","o","p","q","r","s","t","u","v","w","x","y","z">>

LowerChar(c) ==
    IF \E i \in 1..Len(UpperCase) : UpperCase[i] = c
    THEN LowerCase[CHOOSE i \in 1..Len(UpperCase) : UpperCase[i] = c]
    ELSE c

\* A lower-casing left out.
KeepCase(s) == s

\* String.prototype.toLowerCase
ToLowerCase(s) == [i \in 1..Len(s) |-> LowerChar(s[i])]

(***************************************************************************)
(* path.resolve(cwd, path) of node:path (posix): the path is taken from    *)
(* cwd unless it is absolute, then normalised: empty and "." segments      *)
(* dropped, ".." removing the segment before it.                           *)
(***************************************************************************)
RECURSIVE NormalizeSegments(_, _)
NormalizeSegments(segs, acc) ==
    IF segs = <<>> THEN acc
    ELSE LET h == Head(segs) IN
         IF h = <<>> \/ h = <<".">> THEN NormalizeSegments(Tail(segs), acc)
         ELSE IF h = <<".", ".">>
              THEN NormalizeSegments(Tail(segs),
                       IF acc = <<>> THEN acc ELSE SubSeq(acc, 1, Len(acc) - 1))
              ELSE NormalizeSegments(Tail(segs), Append(acc, h))

resolve(cwd, p) ==
    LET full == IF p # <<>> /\ p[1] = "/" THEN p ELSE cwd \o <<"/">> \o p
    IN  <<"/">> \o JoinWith(NormalizeSegments(SplitOn(full, "/"), <<>>), <<"/">>)

(***************************************************************************)
(* readOps.detectImageMimeType                                             *)
(***************************************************************************)
NullMime == <<>>

supported == { <<"j","p","g">>, <<"j","p","e","g">>, <<"p","n","g">>,
               <<"g","i","f">>, <<"w","e","b","p">> }

detectImageMimeType(absolutePath) ==
    LET ext == ToLowerCase(Last(SplitOn(absolutePath, ".")))
    IN  IF ext # <<>> /\ ext \in supported
        THEN <<"i","m","a","g","e","/">>
                 \o (IF ext = <<"j","p","g">> THEN <<"j","p","e","g">> ELSE ext)
        ELSE NullMime

(***************************************************************************)
(* JSON.parse over a text of lexemes.  A JSON value is a tagged record.    *)
(***************************************************************************)
JUndef == [t |-> "undef"]
JNull == [t |-> "null"]
JBool(b) == [t |-> "bool", b |-> b]
JNum(n) == [t |-> "num", n |-> n]
JStr(s) == [t |-> "str", s |-> s]
JArr(a) == [t |-> "arr", a |-> a]
JObj(m) == [t |-> "obj", m |-> m]

Whitespace == {" ", "\n"}

\* The string literals of the model: the lexeme and the string it denotes.
StringLits ==
    << [lex |-> "\"messages\"", val |-> "messages"],
       [lex |-> "\"role\"", val |-> "role"],
       [lex |-> "\"content\"", val |-> "content"],
       [lex |-> "\"type\"", val |-> "type"],
       [lex |-> "\"text\"", val |-> "text"],
       [lex |-> "\"assistant\"", val |-> "assistant"],
       [lex |-> "\"user\"", val |-> "user"],
       [lex |-> "\"toolCall\"", val |-> "toolCall"],
       [lex |-> "\"A red circle.\"", val |-> "A red circle."],
       [lex |-> "\"B\"", val |-> "B"],
       [lex |-> "\"\"", val |-> ""] >>

IsStringLit(tok) == \E i \in 1..Len(StringLits) : StringLits[i].lex = tok
StringOf(tok) == StringLits[CHOOSE i \in 1..Len(StringLits) : StringLits[i].lex = tok].val

NumberLits == {"0", "1"}

ParseFail == [ok |-> FALSE, v |-> JUndef, i |-> 0]
ParseOk(v, i) == [ok |-> TRUE, v |-> v, i |-> i]

\* The first position from i on that holds no whitespace (Len + 1 at the end).
RECURSIVE SkipWs(_, _)
SkipWs(txt, i) ==
    IF i <= Len(txt) /\ txt[i] \in Whitespace THEN SkipWs(txt, i + 1) ELSE i

RECURSIVE ParseValue(_, _)
RECURSIVE ParseMembers(_, _, _)
RECURSIVE ParseElements(_, _, _)

\* A value starting at or after position i; .i is the position after it.
ParseValue(txt, i) ==
    LET j == SkipWs(txt, i) IN
    IF j > Len(txt) THEN ParseFail
    ELSE LET tok == txt[j] IN
         IF tok = "null" THEN ParseOk(JNull, j + 1)
         ELSE IF tok = "true" THEN ParseOk(JBool(TRUE), j + 1)
         ELSE IF tok = "false" THEN ParseOk(JBool(FALSE), j + 1)
         ELSE IF tok \in NumberLits THEN ParseOk(JNum(tok), j + 1)
         ELSE IF IsStringLit(tok) THEN ParseOk(JStr(StringOf(tok)), j + 1)
         ELSE IF tok = "[" THEN
              LET k == SkipWs(txt, j + 1) IN
              IF k <= Len(txt) /\ txt[k] = "]" THEN ParseOk(JArr(<<>>), k + 1)
              ELSE ParseElements(txt, j + 1, <<>>)
         ELSE IF tok = "{" THEN
              LET k == SkipWs(txt, j + 1) IN
              IF k <= Len(txt) /\ txt[k] = "}" THEN ParseOk(JObj(<<>>), k + 1)
              ELSE ParseMembers(txt, j + 1, <<>>)
         ELSE ParseFail

\* The elements of an array from position i (an element is due), up to "]".
ParseElements(txt, i, acc) ==
    LET r == ParseValue(txt, i) IN
    IF ~r.ok THEN ParseFail
    ELSE LET k == SkipWs(txt, r.i) IN
         IF k > Len(txt) THEN ParseFail
         ELSE IF txt[k] = "," THEN ParseElements(txt, k + 1, Append(acc, r.v))
         ELSE IF txt[k] = "]" THEN ParseOk(JArr(Append(acc, r.v)), k + 1)
         ELSE ParseFail

\* The members of an object from position i (a key is due), up to "}".
ParseMembers(txt, i, acc) ==
    LET j == SkipWs(txt, i) IN
    IF j > Len(txt) \/ ~IsStringLit(txt[j]) THEN ParseFail
    ELSE LET c == SkipWs(txt, j + 1) IN
         IF c > Len(txt) \/ txt[c] # ":" THEN ParseFail
         ELSE LET r == ParseValue(txt, c + 1) IN
              IF ~r.ok THEN ParseFail
              ELSE LET k == SkipWs(txt, r.i)
                       m == Append(acc, [k |-> StringOf(txt[j]), v |-> r.v])
                   IN  IF k > Len(txt) THEN ParseFail
                       ELSE IF txt[k] = "," THEN ParseMembers(txt, k + 1, m)
                       ELSE IF txt[k] = "}" THEN ParseOk(JObj(m), k + 1)
                       ELSE ParseFail

\* JSON.parse: one value, whitespace around it, nothing else; .ok is FALSE
\* where JSON.parse throws a SyntaxError.
JSONParse(txt) ==
    LET r == ParseValue(txt, 1) IN
    IF r.ok /\ SkipWs(txt, r.i) > Len(txt) THEN r ELSE ParseFail

\* String.prototype.trim
RECURSIVE TrimEnd(_)
TrimEnd(txt) ==
    IF txt # <<>> /\ Last(txt) \in Whitespace
    THEN TrimEnd(SubSeq(txt, 1, Len(txt) - 1)) ELSE txt

Trim(txt) == LET j == SkipWs(txt, 1) IN TrimEnd(SubSeq(txt, j, Len(txt)))

(***************************************************************************)
(* JavaScript's view of a parsed value.                                    *)
(***************************************************************************)
\* x.prop for x neither null nor undefined (on those the access throws):
\* of an object the last member of that name, undefined otherwise.
Get(x, prop) ==
    IF x.t = "obj" /\ \E i \in 1..Len(x.m) : x.m[i].k = prop
    THEN x.m[CHOOSE i \in 1..Len(x.m) :
                 x.m[i].k = prop /\ \A j \in (i + 1)..Len(x.m) : x.m[j].k # prop].v
    ELSE JUndef

Nullish(x) == x.t \in {"null", "undef"}

Truthy(x) ==
    CASE x.t \in {"null", "undef"} -> FALSE
      [] x.t = "bool" -> x.b
      [] x.t = "num" -> x.n # "0"
      [] x.t = "str" -> x.s # ""
      [] OTHER -> TRUE

IsArray(x) == x.t = "arr"

StrictEqualsString(x, s) == x.t = "str" /\ x.s = s

\* A string as text: no lexeme for the empty string.
TextOf(s) == IF s = "" THEN <<>> ELSE <<s>>

\* The string Array.prototype.join makes of one element.
RECURSIVE ElementToString(_)
ElementToString(x) ==
    CASE x.t \in {"null", "undef"} -> <<>>
      [] x.t = "bool" -> IF x.b THEN <<"true">> ELSE <<"false">>
      [] x.t = "num" -> <<x.n>>
      [] x.t = "str" -> TextOf(x.s)
      [] x.t = "arr" ->
           JoinWith([i \in 1..Len(x.a) |-> ElementToString(x.a[i])], <<",">>)
      [] OTHER -> <<"[object Object]">>

(***************************************************************************)
(* The response normaliser: the "Parse the result" block of execute.       *)
(***************************************************************************)
\* A search for the first assistant entry, from the start of the messages.
RECURSIVE scanForward(_, _)
scanForward(a, k) ==
    IF k > Len(a) THEN [threw |-> FALSE, found |-> FALSE, v |-> JUndef]
    ELSE IF Nullish(a[k]) THEN [threw |-> TRUE, found |-> FALSE, v |-> JUndef]
    ELSE IF StrictEqualsString(Get(a[k], "role"), "assistant")
         THEN [threw |-> FALSE, found |-> TRUE, v |-> a[k]]
         ELSE scanForward(a, k + 1)

findFirst(a, i) == scanForward(a, 1)

\* json.messages.findLast(m => m.role === "assistant"), scanning from the
\* end; .threw where m.role is read of a null entry (a TypeError).
RECURSIVE findLast(_, _)
findLast(a, i) ==
    IF i = 0 THEN [threw |-> FALSE, found |-> FALSE, v |-> JUndef]
    ELSE IF Nullish(a[i]) THEN [threw |-> TRUE, found |-> FALSE, v |-> JUndef]
    ELSE IF StrictEqualsString(Get(a[i], "role"), "assistant")
         THEN [threw |-> FALSE, found |-> TRUE, v |-> a[i]]
         ELSE findLast(a, i - 1)

\* content.filter(c => c.type === "text").map(c => c.text).join("\n")
filterMapJoin(content) ==
    LET texts == SelectSeq(content, LAMBDA c : StrictEqualsString(Get(c, "type"), "text"))
    IN  JoinWith([i \in 1..Len(texts) |-> ElementToString(Get(texts[i], "text"))],
                 <<"\n">>)

\* summaryText as lines 150-172 compute it from result.text; every exception
\* inside the try block ends in the catch, which takes the text as it is.
parseResult(text) ==
    LET p == JSONParse(text) IN
    IF ~p.ok THEN text
    ELSE IF Nullish(p.v) THEN text
    ELSE LET messages == Get(p.v, "messages") IN
         IF ~(Truthy(messages) /\ IsArray(messages)) THEN text
         ELSE LET f == findLast(messages.a, Len(messages.a))
                  content == IF f.found THEN Get(f.v, "content") ELSE JUndef
              IN  IF f.threw THEN text
                  ELSE IF ~Truthy(content) THEN text
                  ELSE IF ~IsArray(content) THEN text
                  ELSE IF \E i \in 1..Len(content.a) : Nullish(content.a[i]) THEN text
                  ELSE filterMapJoin(content.a)

(***************************************************************************)
(* The inputs and the environment of one read.                             *)
(***************************************************************************)
NoModel == "(no model)"
ModelIds == {"glm-4.7", "glm-4.7-long", "glm-4.6v", NoModel}

cwd == <<"/", "w">>

Paths ==
    { <<"a", ".", "p", "n", "g">>,
      <<"a", ".", "J", "P", "G">>,
      <<"a", ".", "t", "x", "t">>,
      <<"a", ".", "g", "i", "f", "/">>,
      <<"x", ".", "d", "/", "a">>,
      <<"n", "o", "t", "e", "s">> }

\* What the child process may write to its standard output.
RedCircle ==
    << "{", "\"messages\"", ":", "[", "{", "\"role\"", ":", "\"assistant\"", ",",
       "\"content\"", ":", "[", "{", "\"type\"", ":", "\"text\"", ",", "\"text\"", ":",
       "\"A red circle.\"", "}", "]", "}", "]", "}", "\n" >>

Outputs ==
    { <<>>,
      <<"\n">>,
      <<"plain string,", " ", "not json">>,
      <<"{", "\"messages\"", ":", "[", "{", "\"role\"", ":", "\"assistant\"", ",",
        "\"content\"", ":", "[", "]", "}", "]", "}">>,
      RedCircle }

StderrChunks == { <<"model unavailable">> }

ErrorMessages == { <<"spawn pi ENOENT">> }

\* The argument of the close event: an exit code, or null for a child that
\* a signal ended.
ExitCode(n) == [isNull |-> FALSE, n |-> n]
NullCode == [isNull |-> TRUE, n |-> 0]
CloseCodes == { ExitCode(0), ExitCode(1), NullCode }

\* `${code}` in a template literal
CodeString(c) == IF c.isNull THEN "null" ELSE ToString(c.n)

\* What execute hands back: a result (content text, details) or an error.
NoTerminal == [kind |-> "none", text |-> <<>>, summaryModel |-> "", isToolError |-> FALSE]

\* What the direct-read collaborator may hand back.
DirectOutcomes ==
    { [kind |-> "result", text |-> <<"file contents">>, summaryModel |-> "",
       isToolError |-> FALSE],
      [kind |-> "error", text |-> <<"ENOENT: no such file">>, summaryModel |-> "",
       isToolError |-> FALSE] }

VARIABLES
    model,        \* ctx.model?.id
    path,         \* params.path
    hasSignal,    \* signal is given
    aborted,      \* signal.aborted
    hasOnUpdate,  \* onUpdate is given
    pc,           \* where execute stands
    updates,      \* what onUpdate has been called with
    directCalls,  \* calls of localRead.execute
    directOutcome,\* what localRead.execute handed back
    spawns,       \* calls of spawn
    kills,        \* calls of child.kill
    child,        \* "none", "running", "closed"
    unwritten,    \* what the child has yet to write to its standard output
    stdout,
    stderr,
    stderrChunks, \* data events of the child's standard error so far
    errored,      \* the child has emitted its error event
    closeCode,    \* the argument of the close event
    abortedAtClose, \* signal.aborted as the close event found it
    listening,    \* onAbort is a listener of the signal
    settled,      \* the promise of lines 91-143
    caught,       \* the error the catch of line 186 received
    summaryText,
    terminal      \* what execute returned or threw

\* The analyze-image command (lines 197-309).
VARIABLES
    cmdArgs,         \* args
    hasUI,           \* ctx.hasUI
    cmdPc,           \* where the handler stands
    notifications,   \* what ctx.ui.notify has been called with
    consoleErrors,   \* calls of console.error
    editorShown,     \* what ctx.ui.editor has been called with
    cmdSpawns,       \* calls of spawn
    cmdKills,        \* calls of child.kill
    cmdChild,        \* "none", "running", "closed"
    cmdUnwritten,    \* what the child has yet to write to its standard output
    cmdStdout,
    cmdStderr,
    cmdStderrChunks,
    cmdErrored,      \* the child has emitted its error event
    cmdCloseCode,    \* the argument of the close event
    loaderAborted,   \* loader.signal.aborted
    customResult     \* the promise of ctx.ui.custom, which done settles

cmdVars == << cmdArgs, hasUI, cmdPc, notifications, consoleErrors, editorShown,
              cmdSpawns, cmdKills, cmdChild, cmdUnwritten, cmdStdout, cmdStderr,
              cmdStderrChunks, cmdErrored, cmdCloseCode, loaderAborted, customResult >>

cmdInputs == << cmdArgs, hasUI >>
cmdChildVars == << cmdChild, cmdUnwritten, cmdStdout, cmdStderr, cmdStderrChunks,
                  cmdErrored, cmdCloseCode >>

execVars == << model, path, hasSignal, aborted, hasOnUpdate, pc, updates, directCalls,
               directOutcome, spawns, kills, child, unwritten, stdout, stderr,
               stderrChunks, errored, closeCode, abortedAtClose, listening, settled,
               caught, summaryText, terminal >>

\* Reads that run side by side, each a call of execute with a trigger model
\* and an image path.
Reads == {"r1", "r2"}

VARIABLE
    reads            \* per read: its signal, child, buffers, promise and outcome

vars == << execVars, cmdVars, reads >>

inputs == << model, path, hasSignal, hasOnUpdate >>
childVars == << child, unwritten, stdout, stderr, stderrChunks, errored, closeCode,
               abortedAtClose >>

Pending == [st |-> "pending", via |-> "none", text |-> <<>>]
Resolved(text) == [st |-> "resolved", via |-> "close", text |-> text]
Rejected(via, msg) == [st |-> "rejected", via |-> via, text |-> msg]

\* A promise that every call of resolveResult or reject settles anew.
SettleAnew(to) == to

\* resolveResult and reject act on a pending promise only.
Settle(to) == IF settled.st = "pending" THEN to ELSE settled

NotCaught == [via |-> "none", msg |-> <<>>]

\* What ctx.ui.custom resolves to: pending until done is called.
NoResult == [st |-> "pending", isNull |-> FALSE, text |-> <<>>]
NullResult == [st |-> "done", isNull |-> TRUE, text |-> <<>>]
TextResult(text) == [st |-> "done", isNull |-> FALSE, text |-> text]

\* The state of a command that has not begun, but for its inputs.
CmdFresh ==
    /\ cmdPc = "idle"
    /\ notifications = <<>>
    /\ consoleErrors = 0
    /\ editorShown = <<>>
    /\ cmdSpawns = 0
    /\ cmdKills = 0
    /\ cmdChild = "none"
    /\ cmdUnwritten = <<>>
    /\ cmdStdout = <<>>
    /\ cmdStderr = <<>>
    /\ cmdStderrChunks = 0
    /\ cmdErrored = FALSE
    /\ cmdCloseCode = NullCode
    /\ loaderAborted = FALSE
    /\ customResult = NoResult

\* No command is invoked.
NoCommand ==
    /\ cmdArgs = <<>>
    /\ hasUI = FALSE
    /\ CmdFresh

\* A read that has not begun: its locals as lines 104-110 make them.
FreshRead ==
    [pc |-> "idle", aborted |-> FALSE, spawns |-> 0, kills |-> 0, child |-> "none",
     unwritten |-> <<>>, errUnwritten |-> <<>>, stdout |-> <<>>, stderr |-> <<>>,
     errored |-> FALSE, closeCode |-> NullCode, listening |-> FALSE,
     settled |-> Pending, terminal |-> NoTerminal]

NoReads == reads = [r \in Reads |-> FreshRead]

\* The state of a read that has not begun.
Fresh ==
    /\ aborted = FALSE
    /\ pc = "idle"
    /\ updates = <<>>
    /\ directCalls = 0
    /\ directOutcome = NoTerminal
    /\ spawns = 0
    /\ kills = 0
    /\ child = "none"
    /\ unwritten = <<>>
    /\ stdout = <<>>
    /\ stderr = <<>>
    /\ stderrChunks = 0
    /\ errored = FALSE
    /\ closeCode = NullCode
    /\ abortedAtClose = FALSE
    /\ listening = FALSE
    /\ settled = Pending
    /\ caught = NotCaught
    /\ summaryText = <<>>
    /\ terminal = NoTerminal

Init ==
    /\ model \in ModelIds
    /\ path \in Paths
    /\ hasSignal \in BOOLEAN
    /\ hasOnUpdate \in BOOLEAN
    /\ Fresh
    /\ NoCommand
    /\ NoReads

\* A model test by prefix, which takes glm-4.6v for a trigger too.
isGlm4_prefix == model # NoModel

isGlm4_7 == model = "glm-4.7" \/ model = "glm-4.7-long"

absolutePath == resolve(cwd, path)

mimeType == detectImageMimeType(absolutePath)

\* Lines 65-76: execute up to its first await.
ExecuteStart ==
    /\ pc = "idle"
    /\ IF ~isGlm4_7
       THEN /\ pc' = "direct"
            /\ directCalls' = directCalls + 1
       ELSE /\ pc' = "classify"
            /\ UNCHANGED directCalls
    /\ UNCHANGED << cmdVars, reads, inputs, aborted, updates, directOutcome, spawns, kills, childVars,
                    listening, settled, caught, summaryText, terminal >>

\* Lines 79-83: the path is no image.
StandardRead ==
    /\ pc = "classify"
    /\ mimeType = NullMime
    /\ pc' = "direct"
    /\ directCalls' = directCalls + 1
    /\ UNCHANGED << cmdVars, reads, inputs, aborted, updates, directOutcome, spawns, kills, childVars,
                    listening, settled, caught, summaryText, terminal >>

\* localRead.execute settles and execute hands its outcome on.
DirectReturn ==
    /\ pc = "direct"
    /\ \E r \in DirectOutcomes :
          /\ directOutcome' = r
          /\ terminal' = r
    /\ pc' = "done"
    /\ UNCHANGED << cmdVars, reads, inputs, aborted, updates, directCalls, spawns, kills, childVars,
                    listening, settled, caught, summaryText >>

Progress == [content |-> <<"[Analyzing image with glm-4.6v...]">>, summaryModel |-> ""]

\* Lines 79-88: the path is an image; the progress update.
ProgressUpdate ==
    /\ pc = "classify"
    /\ mimeType # NullMime
    /\ updates' = IF hasOnUpdate THEN Append(updates, Progress) ELSE updates
    /\ pc' = "progress"
    /\ UNCHANGED << cmdVars, reads, inputs, aborted, directCalls, directOutcome, spawns, kills,
                    childVars, listening, settled, caught, summaryText, terminal >>

\* Lines 90-143: the spawn and the registration of the listeners.
Spawn ==
    /\ pc = "progress"
    /\ spawns' = spawns + 1
    /\ child' = "running"
    /\ unwritten' \in Outputs
    /\ listening' = hasSignal
    /\ pc' = "waiting"
    /\ UNCHANGED << cmdVars, reads, inputs, aborted, updates, directCalls, directOutcome, kills,
                    stdout, stderr, stderrChunks, errored, closeCode, abortedAtClose, settled,
                    caught, summaryText, terminal >>

\* Lines 112-114
StdoutData ==
    /\ child = "running"
    /\ unwritten # <<>>
    /\ \E k \in 1..Len(unwritten) :
          /\ stdout' = stdout \o SubSeq(unwritten, 1, k)
          /\ unwritten' = SubSeq(unwritten, k + 1, Len(unwritten))
    /\ UNCHANGED << cmdVars, reads, inputs, aborted, pc, updates, directCalls, directOutcome, spawns,
                    kills, child, stderr, stderrChunks, errored, closeCode,
                    abortedAtClose, listening, settled, caught, summaryText, terminal >>

\* Lines 116-118
StderrData ==
    /\ child = "running"
    /\ stderrChunks < MaxStderrChunks
    /\ \E d \in StderrChunks : stderr' = stderr \o d
    /\ stderrChunks' = stderrChunks + 1
    /\ UNCHANGED << cmdVars, reads, inputs, aborted, pc, updates, directCalls, directOutcome, spawns,
                    kills, child, unwritten, stdout, errored, closeCode, abortedAtClose,
                    listening, settled, caught, summaryText, terminal >>

\* Lines 120-122
ChildError ==
    /\ child = "running"
    /\ ~errored
    /\ errored' = TRUE
    /\ \E msg \in ErrorMessages : settled' = Settle(Rejected("error", msg))
    /\ UNCHANGED << cmdVars, reads, inputs, aborted, pc, updates, directCalls, directOutcome, spawns,
                    kills, child, unwritten, stdout, stderr, stderrChunks, closeCode,
                    abortedAtClose, listening, caught, summaryText, terminal >>

\* A failure message that leaves the standard-error text out.
exitMessageNoStderr(code) == <<"pi subprocess failed (", CodeString(code), ")">>

exitMessage(code) == <<"pi subprocess failed (", CodeString(code), "): ">> \o stderr

\* What the close listener of lines 124-130 settles the promise to.
onClose(code) ==
    IF code.isNull \/ code.n # 0
    THEN Settle(Rejected("exit", exitMessage(code)))
    ELSE Settle(Resolved(Trim(stdout)))

\* Lines 124-130 and 139-141: both close listeners.
ChildClose ==
    /\ child = "running"
    /\ \E code \in CloseCodes :
          /\ closeCode' = code
          /\ settled' = onClose(code)
    /\ abortedAtClose' = (hasSignal /\ aborted)
    /\ child' = "closed"
    /\ unwritten' = <<>>
    /\ listening' = FALSE
    /\ UNCHANGED << cmdVars, reads, inputs, aborted, pc, updates, directCalls, directOutcome, spawns,
                    kills, stdout, stderr, stderrChunks, errored, caught, summaryText,
                    terminal >>

AbortError == <<"Operation aborted">>

\* The caller activates the signal; onAbort (lines 134-137) runs if it is a
\* listener, and being registered once it is one no longer.
Abort ==
    /\ hasSignal
    /\ ~aborted
    /\ aborted' = TRUE
    /\ IF listening
       THEN /\ kills' = kills + 1
            /\ settled' = Settle(Rejected("abort", AbortError))
            /\ listening' = FALSE
       ELSE UNCHANGED << kills, settled, listening >>
    /\ UNCHANGED << cmdVars, reads, inputs, pc, updates, directCalls, directOutcome, spawns, childVars,
                    caught, summaryText, terminal >>

\* The thrown error without its tool-error mark.
toolErrorUnmarked(msg) ==
    [kind |-> "error",
     text |-> <<"Image analysis failed with glm-4.6v: ">> \o msg,
     summaryModel |-> "",
     isToolError |-> FALSE]

\* A catch that hands back an empty result where it should throw.
fallbackResult(msg) ==
    [kind |-> "result", text |-> <<>>, summaryModel |-> "", isToolError |-> FALSE]

\* Lines 186-192: the error execute throws for a caught one.
toolError(msg) ==
    [kind |-> "error",
     text |-> <<"Image analysis failed with glm-4.6v: ">> \o msg
              \o <<". The image may not be supported (e.g., animated GIFs) or there was a connection issue.">>,
     summaryModel |-> "",
     isToolError |-> TRUE]

\* Lines 174-182
readResult(summary) ==
    [kind |-> "result",
     text |-> <<"[Image analyzed with glm-4.6v]", "\n", "\n">> \o summary,
     summaryModel |-> "glm-4.6v",
     isToolError |-> FALSE]

\* An update with the result that repeats the progress update.
resultUpdateAsProgress(r) == Progress

\* Line 184: what onUpdate is called with for the result.
resultUpdate(r) == [content |-> r.text, summaryModel |-> r.summaryModel]

\* Line 145 left out.
abortCheckSkipped == FALSE

\* Line 145: the test after the await.
abortedAfterAwait == hasSignal /\ aborted

\* Lines 143-192: execute from the settling of the promise to its end.
Resume ==
    /\ pc = "waiting"
    /\ settled.st # "pending"
    /\ pc' = "done"
    /\ IF settled.st = "rejected"
       THEN /\ caught' = [via |-> settled.via, msg |-> settled.text]
            /\ terminal' = toolError(settled.text)
            /\ UNCHANGED << summaryText, updates >>
       ELSE IF abortedAfterAwait
       THEN /\ caught' = [via |-> "aborted", msg |-> AbortError]
            /\ terminal' = toolError(AbortError)
            /\ UNCHANGED << summaryText, updates >>
       ELSE /\ summaryText' = parseResult(settled.text)
            /\ terminal' = readResult(summaryText')
            /\ updates' = IF hasOnUpdate
                          THEN Append(updates, resultUpdate(terminal'))
                          ELSE updates
            /\ UNCHANGED caught
    /\ UNCHANGED << cmdVars, reads, inputs, aborted, directCalls, directOutcome, spawns, kills, childVars,
                    listening, settled >>

Next ==
    \/ ExecuteStart
    \/ StandardRead
    \/ DirectReturn
    \/ ProgressUpdate
    \/ Spawn
    \/ StdoutData
    \/ StderrData
    \/ ChildError
    \/ ChildClose
    \/ Abort
    \/ Resume

Spec == Init /\ [][Next]_vars

(***************************************************************************)
(* Properties of execute.                                                  *)
(***************************************************************************)
TriggerIds == {"glm-4.7", "glm-4.7-long"}

CommonCauses ==
    <<". The image may not be supported (e.g., animated GIFs) or there was a connection issue.">>

\* The result carries the marks of a delegated read.
IsDelegated(t) ==
    /\ t.kind = "result"
    /\ t.summaryModel = "glm-4.6v"
    /\ Len(t.text) >= 3
    /\ SubSeq(t.text, 1, 3) = <<"[Image analyzed with glm-4.6v]", "\n", "\n">>

\* The signal was activated before the close event of the child.
CancelledBeforeClose ==
    hasSignal /\ aborted /\ spawns > 0 /\ (child = "running" \/ abortedAtClose)

\* The delegation of a finished read ended in ProcessError or Cancelled.
DelegationFailed ==
    pc = "done" /\ spawns > 0 /\ (settled.st = "rejected" \/ caught.via = "aborted")

\* C1: with a model id that is no trigger id, or a path that is no image,
\* no child process is spawned (nor killed, nor a progress update sent), and
\* what execute hands back is what the one direct read handed back.
C1_PassthroughOnly ==
    (model \notin TriggerIds \/ detectImageMimeType(resolve(cwd, path)) = NullMime)
        => /\ spawns = 0
           /\ child = "none"
           /\ kills = 0
           /\ updates = <<>>
           /\ pc = "done" => /\ directCalls = 1
                             /\ terminal = directOutcome
                             /\ terminal \in DirectOutcomes

C1_Witness ==
    /\ pc = "done"
    /\ model = "glm-4.6v"
    /\ detectImageMimeType(resolve(cwd, path)) # NullMime
    /\ terminal.kind = "result"

\* C2 (as claimed): a delegated read whose signal was activated before the
\* close event, under any interleaving of stdout data, abort and close, ends
\* in the aborted error and never in a result.
C2_AbortBeforeCloseCancels ==
    (pc = "done" /\ CancelledBeforeClose /\ ~errored)
        => (terminal.kind = "error" /\ caught.msg = AbortError)

\* C3 (as claimed): when the signal was activated before the close event,
\* also when it was activated before the read began, child.kill has been
\* called exactly once by the end of the read.
C3_KillExactlyOnce ==
    (pc = "done" /\ CancelledBeforeClose) => kills = 1

\* C4: a read whose delegation ended in ProcessError or Cancelled throws an
\* error marked isToolError whose message carries the cause and names the
\* common causes; it made no direct read and computed and sent no result.
C4_FailureIsToolError ==
    DelegationFailed
        => /\ terminal.kind = "error"
           /\ terminal.isToolError
           /\ Contains(terminal.text, caught.msg)
           /\ Contains(terminal.text, CommonCauses)
           /\ ~IsDelegated(terminal)
           /\ directCalls = 0
           /\ summaryText = <<>>
           /\ \A i \in 1..Len(updates) : updates[i] = Progress

C4_Witness ==
    /\ DelegationFailed
    /\ settled.via = "abort"
    /\ stdout = RedCircle
    /\ terminal.isToolError

\* C5 (as claimed): once the child has closed with a non-zero exit code,
\* the read ends in the error of that exit, whose message has the code and
\* the standard-error text, thrown as a tool error.
C5_NonZeroExitIsProcessError ==
    (pc = "done" /\ child = "closed" /\ ~closeCode.isNull /\ closeCode.n # 0)
        => /\ caught.via = "exit"
           /\ Contains(caught.msg, <<CodeString(closeCode)>>)
           /\ Contains(caught.msg, stderr)
           /\ terminal.kind = "error"
           /\ terminal.isToolError

\* C5 (amended): a close with a non-zero exit code that finds the promise
\* pending (no error event and no onAbort came before it) rejects it with a
\* message that has the code and the standard-error text, and the read
\* throws it as a tool error.
C5_NonZeroExitWhilePending ==
    (child = "closed" /\ ~closeCode.isNull /\ closeCode.n # 0 /\ ~errored /\ kills = 0)
        => /\ settled.st = "rejected"
           /\ Contains(settled.text, <<CodeString(closeCode)>>)
           /\ Contains(settled.text, stderr)
           /\ pc = "done" => /\ terminal.kind = "error"
                             /\ terminal.isToolError
                             /\ Contains(terminal.text, settled.text)

C5_Witness ==
    /\ pc = "done"
    /\ child = "closed"
    /\ closeCode = ExitCode(1)
    /\ stderr = <<"model unavailable">>
    /\ ~errored
    /\ kills = 0
    /\ terminal.isToolError

\* The errors a read throws whose child failed and whose caller did not cancel.
ProcessFailureErrors ==
    { toolError(m) : m \in ErrorMessages }
        \cup { toolError(<<"pi subprocess failed (", CodeString(c), "): ">> \o e) :
                   c \in CloseCodes \ {ExitCode(0)},
                   e \in {<<>>} \cup StderrChunks }

\* C6 (as claimed): a read the caller cancelled before the close event, and
\* whose child emitted no error event, throws an error that no failure of a
\* child alone produces.
C6_CancelledIsDistinct ==
    (pc = "done" /\ CancelledBeforeClose /\ ~errored /\ terminal.kind = "error")
        => terminal \notin ProcessFailureErrors

\* C7 (as claimed): execute ends in an error only if the direct read and
\* the delegation both failed.
C7_FailsOnlyIfBothFail ==
    (pc = "done" /\ terminal.kind = "error")
        => (directOutcome.kind = "error" /\ DelegationFailed)

\* C7 (amended): execute takes one route, never both, and ends in an error
\* exactly when that route failed: the direct read on the passthrough route,
\* the delegation (ProcessError or Cancelled) on the delegation route.
C7_FailsIffRouteFails ==
    /\ ~(directCalls > 0 /\ spawns > 0)
    /\ directCalls <= 1
    /\ spawns <= 1
    /\ pc = "done"
         => (terminal.kind = "error"
                <=> \/ (directCalls = 1 /\ directOutcome.kind = "error")
                    \/ DelegationFailed)

C7_Witness ==
    /\ pc = "done"
    /\ terminal.kind = "error"
    /\ DelegationFailed
    /\ directCalls = 0
    /\ directOutcome = NoTerminal

\* C8: execute comes to hold a result marked as delegated only in a step
\* taken when the child has closed with exit code 0, the promise is resolved,
\* no error event and no kill has occurred and the signal is not activated.
C8_DelegatedOnlyOnSuccess ==
    [][ (IsDelegated(terminal') /\ ~IsDelegated(terminal))
           => /\ child = "closed"
              /\ closeCode = ExitCode(0)
              /\ settled.st = "resolved"
              /\ ~errored
              /\ kills = 0
              /\ ~(hasSignal /\ aborted) ]_vars

C8_Witness ==
    /\ pc = "done"
    /\ IsDelegated(terminal)
    /\ summaryText = <<"A red circle.">>
    /\ closeCode = ExitCode(0)

\* C10 (as claimed): a read whose delegation ended in Success has a summary
\* text that is not empty.
C10_SuccessSummaryNonEmpty ==
    (pc = "done" /\ IsDelegated(terminal)) => summaryText # <<>>

(***************************************************************************)
(* The normaliser on its own: reads whose child has closed with exit code  *)
(* 0 after writing a text of RawTexts, and the rest of execute from there. *)
(***************************************************************************)
RoleParts ==
    { <<>>,
      <<"\"role\"", ":", "\"assistant\"">>,
      <<"\"role\"", ":", "\"user\"">> }

TextEntry(lit) == <<"{", "\"type\"", ":", "\"text\"", ",", "\"text\"", ":", lit, "}">>

ContentValues ==
    { <<"[", "]">>,
      <<"[">> \o TextEntry("\"A red circle.\"") \o <<"]">>,
      <<"[">> \o TextEntry("\"A red circle.\"") \o <<",">> \o TextEntry("\"B\"") \o <<"]">>,
      <<"[", "{", "\"type\"", ":", "\"toolCall\"", "}", ",">> \o TextEntry("\"B\"") \o <<"]">>,
      <<"[", "null", "]">>,
      <<"\"B\"">>,
      <<"null">> }

ContentParts == { <<>> } \cup { <<"\"content\"", ":">> \o c : c \in ContentValues }

MessageEntry(r, c) ==
    <<"{">> \o r \o (IF r # <<>> /\ c # <<>> THEN <<",">> ELSE <<>>) \o c \o <<"}">>

MessageEntries ==
    { MessageEntry(r, c) : r \in RoleParts, c \in ContentParts }
        \cup { <<"null">>, <<"1">> }

MessagesDoc(es) == <<"{", "\"messages\"", ":", "[">> \o JoinWith(es, <<",">>) \o <<"]", "}">>

RawTexts ==
    { MessagesDoc(es) : es \in UNION { [1..n -> MessageEntries] : n \in 0..MaxMessages } }
        \cup Outputs
        \cup { <<"null">>, <<"1">>, <<"\"B\"">>, <<"[", "]">>, <<"{", "}">>,
               <<"{", "\"messages\"", ":", "null", "}">>,
               <<"{", "\"messages\"", ":", "\"B\"", "}">>,
               <<"{", "\"role\"", ":", "\"assistant\"", ",", "\"content\"", ":", "[">>
                   \o TextEntry("\"B\"") \o <<"]", "}">>,
               SubSeq(RedCircle, 1, Len(RedCircle) - 3),
               <<" ">> \o RedCircle }

InitNorm ==
    /\ model \in TriggerIds
    /\ path = <<"a", ".", "p", "n", "g">>
    /\ hasSignal = TRUE
    /\ hasOnUpdate \in BOOLEAN
    /\ aborted = FALSE
    /\ pc = "waiting"
    /\ updates = IF hasOnUpdate THEN <<Progress>> ELSE <<>>
    /\ directCalls = 0
    /\ directOutcome = NoTerminal
    /\ spawns = 1
    /\ kills = 0
    /\ child = "closed"
    /\ unwritten = <<>>
    /\ stdout \in RawTexts
    /\ stderr = <<>>
    /\ stderrChunks = 0
    /\ errored = FALSE
    /\ closeCode = ExitCode(0)
    /\ abortedAtClose = FALSE
    /\ listening = FALSE
    /\ settled = Resolved(Trim(stdout))
    /\ caught = NotCaught
    /\ summaryText = <<>>
    /\ terminal = NoTerminal
    /\ NoCommand
    /\ NoReads

NextNorm == Resume

SpecNorm == InitNorm /\ [][NextNorm]_vars

\* The summary the normaliser is to make of a raw text.
ExpectedSummary(raw) ==
    LET p == JSONParse(raw)
        field == IF p.ok /\ p.v.t = "obj" THEN Get(p.v, "messages") ELSE JUndef
        msgs == IF field.t = "arr" THEN field.a ELSE <<>>
        IsAssistant(i) ==
            /\ msgs[i].t = "obj"
            /\ Get(msgs[i], "role").t = "str"
            /\ Get(msgs[i], "role").s = "assistant"
        assistants == { i \in 1..Len(msgs) : IsAssistant(i) }
        last == CHOOSE i \in assistants : \A j \in assistants : j <= i
        content == Get(msgs[last], "content")
        IsText(e) ==
            /\ e.t = "obj"
            /\ Get(e, "type").t = "str"
            /\ Get(e, "type").s = "text"
        \* usable: an assistant entry with no null entry after it whose
        \* content is a sequence without null entries
        usable ==
            /\ assistants # {}
            /\ \A j \in (last + 1)..Len(msgs) : msgs[j].t # "null"
            /\ content.t = "arr"
            /\ \A k \in 1..Len(content.a) : content.a[k].t # "null"
        texts == SelectSeq(content.a, IsText)
    IN  IF usable
        THEN JoinWith([k \in 1..Len(texts) |-> ElementToString(Get(texts[k], "text"))],
                      <<"\n">>)
        ELSE raw

\* C9: the normaliser never fails: a read whose promise resolved, with the
\* signal not activated, returns a result; its summary is the newline-joined
\* text of the "text" entries, in order, of the content of the last
\* assistant entry when the raw text parses to a record with a messages
\* sequence that has a usable assistant entry, and the raw text otherwise.
C9_NormalizedSummary ==
    pc = "done"
        => /\ terminal.kind = "result"
           /\ summaryText = ExpectedSummary(settled.text)
           /\ terminal.text = <<"[Image analyzed with glm-4.6v]", "\n", "\n">> \o summaryText

TwoAssistants ==
    MessagesDoc(<< MessageEntry(<<"\"role\"", ":", "\"assistant\"">>,
                                <<"\"content\"", ":", "[">>
                                    \o TextEntry("\"A red circle.\"") \o <<"]">>),
                   MessageEntry(<<"\"role\"", ":", "\"assistant\"">>,
                                <<"\"content\"", ":", "[">>
                                    \o TextEntry("\"A red circle.\"") \o <<",">>
                                    \o TextEntry("\"B\"") \o <<"]">>) >>)

C9_Witness ==
    /\ pc = "done"
    /\ stdout = TwoAssistants
    /\ summaryText = <<"A red circle.", "\n", "B">>
    /\ terminal.kind = "result"

(***************************************************************************)
(* The classifier on its own: reads of a trigger model whose path is made  *)
(* of up to MaxPieces pieces, up to the spawn or the standard read.        *)
(***************************************************************************)
PathPieces ==
    { <<"a">>, <<".">>, <<"/">>,
      <<"p", "n", "g">>, <<"P", "n", "G">>,
      <<"j", "p", "g">>, <<"J", "P", "G">>,
      <<"j", "p", "e", "g">>,
      <<"g", "i", "f">>,
      <<"w", "e", "b", "p">>,
      <<"b", "m", "p">>,
      <<"p", "n">> }

ClassifierPaths ==
    { JoinWith(ps, <<>>) : ps \in UNION { [1..n -> PathPieces] : n \in 0..MaxPieces } }

InitClassify ==
    /\ model = "glm-4.7"
    /\ path \in ClassifierPaths
    /\ hasSignal = FALSE
    /\ hasOnUpdate = FALSE
    /\ Fresh
    /\ NoCommand
    /\ NoReads

NextClassify ==
    \/ ExecuteStart
    \/ StandardRead
    \/ ProgressUpdate
    \/ Spawn

SpecClassify == InitClassify /\ [][NextClassify]_vars

\* The MIME type of each supported extension.
ImageTypes ==
    { [ext |-> <<"j", "p", "g">>, mime |-> <<"i","m","a","g","e","/","j","p","e","g">>],
      [ext |-> <<"j", "p", "e", "g">>, mime |-> <<"i","m","a","g","e","/","j","p","e","g">>],
      [ext |-> <<"p", "n", "g">>, mime |-> <<"i","m","a","g","e","/","p","n","g">>],
      [ext |-> <<"g", "i", "f">>, mime |-> <<"i","m","a","g","e","/","g","i","f">>],
      [ext |-> <<"w", "e", "b", "p">>, mime |-> <<"i","m","a","g","e","/","w","e","b","p">>] }

SameLetter(c, d) ==
    \/ c = d
    \/ \E i \in 1..Len(UpperCase) : {c, d} = {UpperCase[i], LowerCase[i]}

EqualIgnoringCase(a, b) ==
    Len(a) = Len(b) /\ \A i \in 1..Len(a) : SameLetter(a[i], b[i])

\* The extension of a path: what follows its last dot; none without a dot.
HasExtension(p) == \E i \in 1..Len(p) : p[i] = "."
ExtensionOf(p) ==
    LET k == CHOOSE i \in 1..Len(p) : p[i] = "." /\ \A j \in (i + 1)..Len(p) : p[j] # "."
    IN  SubSeq(p, k + 1, Len(p))

IsImagePath(p) ==
    HasExtension(p) /\ \E t \in ImageTypes : EqualIgnoringCase(ExtensionOf(p), t.ext)

\* C11: the classification depends on the absolute path alone: a path whose
\* extension is, whatever its case, one of jpg, jpeg, png, gif, webp gets
\* the MIME type of that extension (image/jpeg for jpg and jpeg) and the read
\* is delegated; a path with another extension or none gets none and is
\* read directly.
C11_ClassifiesByExtension ==
    LET p == resolve(cwd, path) IN
    /\ IsImagePath(p)
         => \E t \in ImageTypes : /\ EqualIgnoringCase(ExtensionOf(p), t.ext)
                                  /\ detectImageMimeType(p) = t.mime
    /\ ~IsImagePath(p) => detectImageMimeType(p) = NullMime
    /\ pc = "waiting" => (IsImagePath(p) /\ spawns = 1)
    /\ pc = "direct" => (~IsImagePath(p) /\ spawns = 0)

C11_Witness ==
    /\ pc = "waiting"
    /\ path = <<"a", ".", "J", "P", "G">>
    /\ detectImageMimeType(resolve(cwd, path)) = <<"i","m","a","g","e","/","j","p","e","g">>

(***************************************************************************)
(* The analyze-image command: its handler, the child process it spawns in  *)
(* the factory of ctx.ui.custom, and the loader the user may abort.        *)
(***************************************************************************)
CmdArgTexts ==
    { <<>>,
      <<" ">>,
      <<" ", "\n">>,
      <<" ", "a", ".", "p", "n", "g", " ">>,
      <<"a", ".", "p", "n", "g">>,
      <<"a", ".", "t", "x", "t">> }

Notice(msg, level) == [msg |-> msg, level |-> level]

RequiresUI == Notice(<<"analyze-image requires interactive mode">>, "error")
Usage == Notice(<<"Usage: /analyze-image <path-to-image>">>, "error")
NotSupported == Notice(<<"Not a supported image file">>, "error")
Cancelled == Notice(<<"Cancelled">>, "info")
AnalysisFailed(msg) == Notice(<<"Analysis failed: ">> \o msg, "error")

\* No exec read is under way beside the command.
InitCmd ==
    /\ model = "glm-4.7"
    /\ path = <<"a", ".", "p", "n", "g">>
    /\ hasSignal = FALSE
    /\ hasOnUpdate = FALSE
    /\ Fresh
    /\ cmdArgs \in CmdArgTexts
    /\ hasUI \in BOOLEAN
    /\ CmdFresh
    /\ NoReads

\* An imagePath taken from the arguments as they are.
imagePathUntrimmed == cmdArgs

\* Line 205
imagePath == Trim(cmdArgs)

\* Lines 211-214
cmdMimeType == detectImageMimeType(resolve(cwd, imagePath))

\* done of ctx.ui.custom: the first call settles the promise.
customDone(v) == IF customResult.st = "pending" THEN v ELSE customResult

\* Lines 199-214: the handler up to its first await.
CmdStart ==
    /\ cmdPc = "idle"
    /\ IF ~hasUI
       THEN /\ notifications' = Append(notifications, RequiresUI)
            /\ cmdPc' = "done"
       ELSE IF imagePath = <<>>
       THEN /\ notifications' = Append(notifications, Usage)
            /\ cmdPc' = "done"
       ELSE /\ cmdPc' = "classify"
            /\ UNCHANGED notifications
    /\ UNCHANGED << execVars, reads, cmdInputs, consoleErrors, editorShown, cmdSpawns, cmdKills,
                    cmdChildVars, loaderAborted, customResult >>

\* Lines 214-218: the path is no image.
CmdNotSupported ==
    /\ cmdPc = "classify"
    /\ cmdMimeType = NullMime
    /\ notifications' = Append(notifications, NotSupported)
    /\ cmdPc' = "done"
    /\ UNCHANGED << execVars, reads, cmdInputs, consoleErrors, editorShown, cmdSpawns, cmdKills,
                    cmdChildVars, loaderAborted, customResult >>

\* Lines 214-299: the path is an image; the factory of ctx.ui.custom makes
\* the loader, spawns the child and registers the listeners.  The loader is
\* new, so the test of line 290 finds its signal not aborted.
CmdSpawn ==
    /\ cmdPc = "classify"
    /\ cmdMimeType # NullMime
    /\ cmdSpawns' = cmdSpawns + 1
    /\ cmdChild' = "running"
    /\ cmdUnwritten' \in Outputs
    /\ cmdKills' = IF loaderAborted THEN cmdKills + 1 ELSE cmdKills
    /\ cmdPc' = "custom"
    /\ UNCHANGED << execVars, reads, cmdInputs, notifications, consoleErrors, editorShown,
                    cmdStdout, cmdStderr, cmdStderrChunks, cmdErrored, cmdCloseCode,
                    loaderAborted, customResult >>

\* Lines 245-247
CmdStdoutData ==
    /\ cmdChild = "running"
    /\ cmdUnwritten # <<>>
    /\ \E k \in 1..Len(cmdUnwritten) :
          /\ cmdStdout' = cmdStdout \o SubSeq(cmdUnwritten, 1, k)
          /\ cmdUnwritten' = SubSeq(cmdUnwritten, k + 1, Len(cmdUnwritten))
    /\ UNCHANGED << execVars, reads, cmdInputs, cmdPc, notifications, consoleErrors, editorShown,
                    cmdSpawns, cmdKills, cmdChild, cmdStderr, cmdStderrChunks, cmdErrored,
                    cmdCloseCode, loaderAborted, customResult >>

\* Lines 249-251
CmdStderrData ==
    /\ cmdChild = "running"
    /\ cmdStderrChunks < MaxStderrChunks
    /\ \E d \in StderrChunks : cmdStderr' = cmdStderr \o d
    /\ cmdStderrChunks' = cmdStderrChunks + 1
    /\ UNCHANGED << execVars, reads, cmdInputs, cmdPc, notifications, consoleErrors, editorShown,
                    cmdSpawns, cmdKills, cmdChild, cmdUnwritten, cmdStdout, cmdErrored,
                    cmdCloseCode, loaderAborted, customResult >>

\* Lines 253-257
CmdChildError ==
    /\ cmdChild = "running"
    /\ ~cmdErrored
    /\ cmdErrored' = TRUE
    /\ consoleErrors' = consoleErrors + 1
    /\ \E msg \in ErrorMessages : notifications' = Append(notifications, AnalysisFailed(msg))
    /\ customResult' = customDone(NullResult)
    /\ UNCHANGED << execVars, reads, cmdInputs, cmdPc, editorShown, cmdSpawns, cmdKills, cmdChild,
                    cmdUnwritten, cmdStdout, cmdStderr, cmdStderrChunks, cmdCloseCode,
                    loaderAborted >>

\* Lines 259-288
CmdChildClose ==
    /\ cmdChild = "running"
    /\ \E code \in CloseCodes :
          /\ cmdCloseCode' = code
          /\ IF code.isNull \/ code.n # 0
             THEN /\ consoleErrors' = consoleErrors + 1
                  /\ notifications' = Append(notifications, AnalysisFailed(cmdStderr))
                  /\ customResult' = customDone(NullResult)
             ELSE /\ customResult' = customDone(TextResult(parseResult(cmdStdout)))
                  /\ UNCHANGED << consoleErrors, notifications >>
    /\ cmdChild' = "closed"
    /\ cmdUnwritten' = <<>>
    /\ UNCHANGED << execVars, reads, cmdInputs, cmdPc, editorShown, cmdSpawns, cmdKills, cmdStdout,
                    cmdStderr, cmdStderrChunks, cmdErrored, loaderAborted >>

\* An onAbort that leaves the promise of ctx.ui.custom alone.
loaderOnAbortIdle == customResult

\* Line 223: loader.onAbort
loaderOnAbort == customDone(NullResult)

\* The user aborts the loader while the child runs: the loader activates
\* its signal, whose listener (lines 294-296) kills the child, and calls
\* onAbort.
CmdAbort ==
    /\ cmdChild = "running"
    /\ ~loaderAborted
    /\ loaderAborted' = TRUE
    /\ cmdKills' = cmdKills + 1
    /\ customResult' = loaderOnAbort
    /\ UNCHANGED << execVars, reads, cmdInputs, cmdPc, notifications, consoleErrors, editorShown,
                    cmdSpawns, cmdChild, cmdUnwritten, cmdStdout, cmdStderr,
                    cmdStderrChunks, cmdErrored, cmdCloseCode >>

\* Lines 299-307: the handler from the settling of ctx.ui.custom to its end.
CmdResume ==
    /\ cmdPc = "custom"
    /\ customResult.st = "done"
    /\ IF customResult.isNull
       THEN /\ notifications' = Append(notifications, Cancelled)
            /\ UNCHANGED editorShown
       ELSE /\ editorShown' = Append(editorShown, customResult.text)
            /\ UNCHANGED notifications
    /\ cmdPc' = "done"
    /\ UNCHANGED << execVars, reads, cmdInputs, consoleErrors, cmdSpawns, cmdKills, cmdChildVars,
                    loaderAborted, customResult >>

NextCmd ==
    \/ CmdStart
    \/ CmdNotSupported
    \/ CmdSpawn
    \/ CmdStdoutData
    \/ CmdStderrData
    \/ CmdChildError
    \/ CmdChildClose
    \/ CmdAbort
    \/ CmdResume

SpecCmd == InitCmd /\ [][NextCmd]_vars

BlankArgs == \A i \in 1..Len(cmdArgs) : cmdArgs[i] \in {" ", "\n"}

\* C12 (as claimed): a command whose argument text is empty or blank ends
\* with the usage notification alone and has spawned no child process.
C12_BlankArgsGiveUsage ==
    (cmdPc = "done" /\ BlankArgs) => (notifications = <<Usage>> /\ cmdSpawns = 0)

\* C12 (amended): a command whose argument text is empty or blank never
\* spawns a child process nor shows a summary, and it ends with one
\* notification: the usage notification in interactive mode (ctx.hasUI), the
\* interactive-mode notification without it.
C12_BlankArgsNoSpawn ==
    BlankArgs
        => /\ cmdSpawns = 0
           /\ cmdChild = "none"
           /\ editorShown = <<>>
           /\ cmdPc # "idle" => /\ cmdPc = "done"
                                /\ notifications = <<IF hasUI THEN Usage ELSE RequiresUI>>

C12_Witness ==
    /\ cmdPc = "done"
    /\ cmdArgs = <<" ", "\n">>
    /\ hasUI
    /\ notifications = <<Usage>>

\* C13: once the user has aborted the loader while the child ran, the
\* command shows no summary, whatever close event follows (exit code 0
\* included): child.kill was called once, ctx.ui.custom holds null, and the
\* handler ends with the notification "Cancelled".
C13_AbortNeverDisplays ==
    loaderAborted
        => /\ editorShown = <<>>
           /\ cmdKills = 1
           /\ customResult = NullResult
           /\ cmdPc = "done"
                => \E i \in 1..Len(notifications) : notifications[i] = Cancelled

C13_Witness ==
    /\ loaderAborted
    /\ cmdPc = "done"
    /\ cmdChild = "closed"
    /\ cmdCloseCode = ExitCode(0)
    /\ cmdStdout = RedCircle
    /\ notifications = <<Cancelled>>

IsFailureNotice(n) ==
    /\ n.level = "error"
    /\ Len(n.msg) >= 1
    /\ n.msg[1] = "Analysis failed: "

FailureNotices == { i \in 1..Len(notifications) : IsFailureNotice(notifications[i]) }
CancelNotices == { i \in 1..Len(notifications) : notifications[i] = Cancelled }

\* C19 (as claimed): a command that spawned a child process reports at most
\* one outcome, and exactly one once it has ended: the summary shown, or an
\* "Analysis failed" notification, or a "Cancelled" notification; a failure
\* of the process (error event or close with a code other than 0, the user
\* not having aborted) gives no "Cancelled", and an abort by the user gives
\* no "Analysis failed".
C19_OneOutcomeReported ==
    cmdSpawns > 0
        => /\ Len(editorShown) + Cardinality(FailureNotices) + Cardinality(CancelNotices) <= 1
           /\ cmdPc = "done"
                => Len(editorShown) + Cardinality(FailureNotices)
                      + Cardinality(CancelNotices) = 1
           /\ (~loaderAborted /\ FailureNotices # {}) => CancelNotices = {}
           /\ loaderAborted => FailureNotices = {}

(***************************************************************************)
(* One process, one outcome, one progress update.                          *)
(***************************************************************************)
\* The path of a trigger model's read is an image: the read is delegated.
DelegatedRoute ==
    model \in TriggerIds /\ detectImageMimeType(resolve(cwd, path)) # NullMime

\* C14: a delegated read spawns one child process and no second one
\* whatever error, close and abort events follow; its promise settles once
\* (the first of resolve and reject stands), and execute ends with one
\* terminal result or error, which nothing changes afterwards.
C14_OneProcessOneOutcome ==
    /\ [](/\ spawns <= 1
          /\ (DelegatedRoute /\ pc \in {"waiting", "done"}) => spawns = 1
          /\ (spawns = 1 /\ pc = "done") => /\ settled.st # "pending"
                                            /\ terminal.kind \in {"result", "error"}
          /\ (spawns = 1 /\ pc # "done") => terminal = NoTerminal)
    /\ [][/\ settled.st # "pending" => settled' = settled
          /\ pc = "done" => (terminal' = terminal /\ spawns' = spawns /\ pc' = pc)]_vars

C14_Witness ==
    /\ pc = "done"
    /\ spawns = 1
    /\ errored
    /\ child = "closed"
    /\ aborted
    /\ settled.via = "error"
    /\ terminal.isToolError

ProgressCount == Cardinality({ i \in 1..Len(updates) : updates[i] = Progress })

\* C15: within one delegated read onUpdate gets the progress update
\* "[Analyzing image with glm-4.6v...]" at most once; it is the first update,
\* sent while no child process has been spawned and execute has not ended;
\* the only other update is the result, sent in the step that ends execute.
C15_ProgressOnceBeforeSpawn ==
    /\ [](/\ ProgressCount <= 1
          /\ ProgressCount = 1 => updates[1] = Progress
          /\ Len(updates) <= 2)
    /\ [][updates' # updates
            => \/ /\ updates = <<>>
                  /\ updates' = <<Progress>>
                  /\ spawns = 0 /\ spawns' = 0
                  /\ terminal = NoTerminal /\ terminal' = NoTerminal
               \/ /\ spawns = 1
                  /\ terminal = NoTerminal
                  /\ IsDelegated(terminal')
                  /\ updates' = Append(updates, [content |-> terminal'.text,
                                                 summaryModel |-> "glm-4.6v"])]_vars

C15_Witness ==
    /\ pc = "done"
    /\ hasOnUpdate
    /\ Len(updates) = 2
    /\ updates[1] = Progress
    /\ IsDelegated(terminal)

(***************************************************************************)
(* A child process that hangs: it emits neither close nor error.           *)
(***************************************************************************)
NextHung ==
    \/ ExecuteStart
    \/ StandardRead
    \/ DirectReturn
    \/ ProgressUpdate
    \/ Spawn
    \/ StdoutData
    \/ StderrData
    \/ Abort
    \/ Resume

SpecHung == Init /\ [][NextHung]_vars

\* C16 (as claimed): with a child process that never emits close or error,
\* a delegated read whose signal is activated, before the invocation
\* started included, does not stay waiting on a pending promise: the
\* promise is rejected, so that execute goes on to its terminal error.
\* (In these runs a pending promise of an aborted read stays pending for
\* ever: no step but an abort can settle it.)
C16_AbortEndsHungRead ==
    (pc = "waiting" /\ hasSignal /\ aborted) => settled.st = "rejected"

\* C17 (as claimed): once a delegated read has ended with its terminal
\* result or error, the abort listener is detached, and an activation of the
\* signal neither calls child.kill nor changes the outcome.
C17_AbortAfterEndIsNoOp ==
    /\ [][(pc = "done" /\ spawns = 1 /\ ~aborted /\ aborted')
            => (kills' = kills /\ terminal' = terminal /\ settled' = settled)]_vars
    /\ []((pc = "done" /\ spawns = 1) => ~listening)

(***************************************************************************)
(* Several delegated reads side by side.  Each call of execute has its own *)
(* signal parameter and, in the closure of its promise, its own child,     *)
(* stdout, stderr and onAbort; the steps of one read are those of the      *)
(* single read above, taken on the record of that read.                    *)
(***************************************************************************)
\* What the child process of each read writes to its standard output and to
\* its standard error.
ChildStdout(r) == IF r = "r1" THEN <<"one", "uno">> ELSE <<"two", "dos">>
ChildStderr(r) == IF r = "r1" THEN <<"one failed">> ELSE <<"two failed">>

InitConc ==
    /\ model = "glm-4.7"
    /\ path = <<"a", ".", "p", "n", "g">>
    /\ hasSignal = TRUE
    /\ hasOnUpdate = FALSE
    /\ Fresh
    /\ NoCommand
    /\ NoReads

\* A data listener that appends to the buffers of every read.
receivesAll(q, r) == TRUE

\* Lines 109-118: the data listeners of read r append to the stdout and
\* stderr of their own closure.
receives(q, r) == q = r

\* The promise of read r settles once.
SettleOf(r, to) == IF reads[r].settled.st = "pending" THEN to ELSE reads[r].settled

\* Lines 65-143 for read r: the spawn and the registration of the listeners
\* on the child and on the signal of this call.
ReadSpawn(r) ==
    /\ reads[r].pc = "idle"
    /\ reads' = [reads EXCEPT ![r] = [@ EXCEPT !.pc = "waiting",
                                                !.spawns = @ + 1,
                                                !.child = "running",
                                                !.unwritten = ChildStdout(r),
                                                !.errUnwritten = ChildStderr(r),
                                                !.listening = TRUE]]
    /\ UNCHANGED << execVars, cmdVars >>

\* Lines 112-114
ReadStdoutData(r) ==
    /\ reads[r].child = "running"
    /\ reads[r].unwritten # <<>>
    /\ \E k \in 1..Len(reads[r].unwritten) :
          LET data == SubSeq(reads[r].unwritten, 1, k)
              rest == SubSeq(reads[r].unwritten, k + 1, Len(reads[r].unwritten))
          IN  reads' = [q \in Reads |->
                          [reads[q] EXCEPT
                             !.stdout = IF receives(q, r) THEN @ \o data ELSE @,
                             !.unwritten = IF q = r THEN rest ELSE @]]
    /\ UNCHANGED << execVars, cmdVars >>

\* Lines 116-118
ReadStderrData(r) ==
    /\ reads[r].child = "running"
    /\ reads[r].errUnwritten # <<>>
    /\ \E k \in 1..Len(reads[r].errUnwritten) :
          LET data == SubSeq(reads[r].errUnwritten, 1, k)
              rest == SubSeq(reads[r].errUnwritten, k + 1, Len(reads[r].errUnwritten))
          IN  reads' = [q \in Reads |->
                          [reads[q] EXCEPT
                             !.stderr = IF receives(q, r) THEN @ \o data ELSE @,
                             !.errUnwritten = IF q = r THEN rest ELSE @]]
    /\ UNCHANGED << execVars, cmdVars >>

\* Lines 120-122
ReadChildError(r) ==
    /\ reads[r].child = "running"
    /\ ~reads[r].errored
    /\ \E msg \in ErrorMessages :
          reads' = [reads EXCEPT ![r] = [@ EXCEPT !.errored = TRUE,
                                                   !.settled = SettleOf(r, Rejected("error", msg))]]
    /\ UNCHANGED << execVars, cmdVars >>

\* Lines 124-130 and 139-141
ReadChildClose(r) ==
    /\ reads[r].child = "running"
    /\ \E code \in CloseCodes :
          LET to == IF code.isNull \/ code.n # 0
                    THEN Rejected("exit", <<"pi subprocess failed (", CodeString(code), "): ">>
                                            \o reads[r].stderr)
                    ELSE Resolved(Trim(reads[r].stdout))
          IN  reads' = [reads EXCEPT ![r] = [@ EXCEPT !.closeCode = code,
                                                       !.settled = SettleOf(r, to),
                                                       !.child = "closed",
                                                       !.unwritten = <<>>,
                                                       !.errUnwritten = <<>>,
                                                       !.listening = FALSE]]
    /\ UNCHANGED << execVars, cmdVars >>

\* The caller activates the signal of read r; its onAbort (lines 134-137)
\* runs if it is a listener.
ReadAbort(r) ==
    /\ ~reads[r].aborted
    /\ reads' = [reads EXCEPT ![r] =
                    IF reads[r].listening
                    THEN [@ EXCEPT !.aborted = TRUE,
                                   !.kills = @ + 1,
                                   !.settled = SettleOf(r, Rejected("abort", AbortError)),
                                   !.listening = FALSE]
                    ELSE [@ EXCEPT !.aborted = TRUE]]
    /\ UNCHANGED << execVars, cmdVars >>

\* Lines 143-192 for read r
ReadResume(r) ==
    /\ reads[r].pc = "waiting"
    /\ reads[r].settled.st # "pending"
    /\ LET t == IF reads[r].settled.st = "rejected" THEN toolError(reads[r].settled.text)
                ELSE IF reads[r].aborted THEN toolError(AbortError)
                ELSE readResult(parseResult(reads[r].settled.text))
       IN  reads' = [reads EXCEPT ![r] = [@ EXCEPT !.pc = "done", !.terminal = t]]
    /\ UNCHANGED << execVars, cmdVars >>

NextConc ==
    \E r \in Reads :
       \/ ReadSpawn(r)
       \/ ReadStdoutData(r)
       \/ ReadStderrData(r)
       \/ ReadChildError(r)
       \/ ReadChildClose(r)
       \/ ReadAbort(r)
       \/ ReadResume(r)

SpecConc == InitConc /\ [][NextConc]_vars

IsPrefix(p, s) == Len(p) <= Len(s) /\ p = SubSeq(s, 1, Len(p))

Prefixes(s) == { SubSeq(s, 1, n) : n \in 0..Len(s) }

\* The terminal results and errors a read can end with, given what its own
\* child process writes.
OwnOutcomes(r) ==
    { readResult(p) : p \in Prefixes(ChildStdout(r)) }
      \cup { toolError(<<"pi subprocess failed (", CodeString(c), "): ">> \o e) :
                c \in {ExitCode(1), NullCode}, e \in Prefixes(ChildStderr(r)) }
      \cup { toolError(m) : m \in ErrorMessages \cup {AbortError} }

\* C18: of reads that run side by side each has one child process of its
\* own; the stdout and stderr of a read hold what its own child wrote, in
\* the order written, and its result or error is made of that alone; a step
\* of one read (the activation of its signal among them) changes nothing of
\* another read: not its kills, its child, its promise nor its outcome; and
\* child.kill is called on a read's child only by the abort of that read.
C18_ReadsAreIndependent ==
    /\ [](\A r \in Reads :
            /\ reads[r].spawns <= 1
            /\ IsPrefix(reads[r].stdout, ChildStdout(r))
            /\ IsPrefix(reads[r].stderr, ChildStderr(r))
            /\ reads[r].kills <= 1
            /\ reads[r].kills = 1 => reads[r].aborted
            /\ reads[r].pc = "done" => reads[r].terminal \in OwnOutcomes(r))
    /\ [][\A r, q \in Reads :
            (r # q /\ reads'[r] # reads[r]) => reads'[q] = reads[q]]_vars

C18_Witness ==
    /\ reads["r1"].pc = "done"
    /\ reads["r1"].kills = 1
    /\ reads["r1"].terminal = toolError(AbortError)
    /\ reads["r2"].pc = "done"
    /\ reads["r2"].kills = 0
    /\ ~reads["r2"].aborted
    /\ reads["r2"].stderr = <<"two failed">>
    /\ reads["r2"].terminal = readResult(<<"two", "dos">>)

====
